---- MODULE Spec2Model ----
(***************************************************************************)
(* A model of gmail_bot.py: the UciSupportBot class (run_bot and the       *)
(* helpers it calls) with the two mail servers as its environment.         *)
(*                                                                         *)
(* Text is modelled as a sequence of lines, a line as a sequence of        *)
(* tokens.  A token is one of the three literals of the regular            *)
(* expression of _parse_email ("mailto:", "?subject=", "&amp;body="), the  *)
(* recipient separator "," or an opaque piece of other text.  The '.' of   *)
(* the regular expression matches every character but the line break, so   *)
(* '.+' matches any non-empty run of tokens inside one line.               *)
(***************************************************************************)
EXTENDS Integers, Sequences, FiniteSets, TLC

\* ------------------------------------------------------------------ bounds
MaxLines == 3        \* lines of an html text in the link-selection check
MaxSegs == 3         \* segments (links or other text) on one line
MaxEmails == 2       \* messages returned by one retrieval in a run
MaxFindEmails == 3   \* messages handed to _find_email in the scan check
MaxOkSends == 2      \* successful sends counted over the life of a bot
MaxPieces == 3       \* pieces an address tried on the email setter is made of

\* ---------------------------------------------------------------- options
\* Python's None and a present value, as sequences of length 0 and 1
None == <<>>
Some(x) == <<x>>
IsNone(o) == o = <<>>
Get(o) == o[1]

\* ------------------------------------------------------------------ tokens
MAILTO == "mailto:"
SUBJECT == "?subject="
BODY == "&amp;body="
COMMA == ","

\* the k-th link of a text: mailto:e<k>?subject=s<k>&amp;body=b<k>
LinkEmails(k) == <<"e" \o ToString(k)>>
LinkSubject(k) == <<"s" \o ToString(k)>>
LinkBody(k) == <<"b" \o ToString(k)>>
Link(k) == <<MAILTO>> \o LinkEmails(k) \o <<SUBJECT>> \o LinkSubject(k) \o <<BODY>> \o LinkBody(k)
\* markup between two links, e.g. ">No</a><a href="
Junk == <<"x">>

\* the answers and their positions (gmail_bot.py:152)
Answers == {"not today", "no", "yes"}
AnswerIndex(answer) == CASE answer = "not today" -> 0 [] answer = "no" -> 1 [] answer = "yes" -> 2

\* ------------------------------------------------- the regular expression
\* mailto:(?P<emails>.+)\?subject=(?P<subject>.+)&amp;body=(?P<body>.+)
\* positions <<i, j, k>> of the three literals of a way to match the line
\* from position i: every group is non-empty and body runs to the line end
Positions(line, token) == {n \in 1..Len(line) : line[n] = token}
Matchings(line, i) ==
    IF line[i] # MAILTO THEN {}
    ELSE {jk \in Positions(line, SUBJECT) \X Positions(line, BODY) :
             /\ jk[1] > i + 1
             /\ jk[2] > jk[1] + 1
             /\ jk[2] < Len(line)}

Max(S) == CHOOSE m \in S : \A n \in S : n <= m
Min(S) == CHOOSE m \in S : \A n \in S : m <= n

\* re's search in one line: the leftmost start, each group greedy in turn
\* (emails as long as possible, then subject as long as possible, body the
\* rest of the line).  No match: None.
MatchLine(line) ==
    LET starts == {i \in 1..Len(line) : Matchings(line, i) # {}}
    IN IF starts = {} THEN None
       ELSE LET i == Min(starts)
                j == Max({jk[1] : jk \in Matchings(line, i)})
                k == Max({jk[2] : jk \in {m \in Matchings(line, i) : m[1] = j}})
            IN Some([emails |-> SubSeq(line, i + 1, j - 1),
                     subject |-> SubSeq(line, j + 1, k - 1),
                     body |-> SubSeq(line, k + 1, Len(line))])

\* finditer over a text: a match consumes the rest of its line, so a line
\* gives at most one match; matches come in the order of the lines
RECURSIVE finditer(_)
finditer(html_text) ==
    IF html_text = <<>> THEN <<>>
    ELSE MatchLine(Head(html_text)) \o finditer(Tail(html_text))

\* ------------------------------------------------------------- messages
\* a retrieved message (pyzmail.PyzMessage): html_part is None or the decoded
\* text of the html part; text_part is the plain-text part
Message(html_part, text_part) == [html_part |-> html_part, text_part |-> text_part]

\* _parse_email falling back on the plain text of a message without html
_parse_email_text_fallback(email) ==
    IF ~IsNone(email.html_part) THEN Some(finditer(Get(email.html_part)))
    ELSE Some(finditer(email.text_part))

\* gmail_bot.py:135-145
_parse_email(email) ==
    IF ~IsNone(email.html_part) THEN Some(finditer(Get(email.html_part)))
    ELSE None

\* gmail_bot.py:153-156, the loop with count links still to skip
RECURSIVE ParseLinkLoop(_, _)
ParseLinkLoop(links, count) ==
    IF links = <<>> THEN None
    ELSE IF count = 0 THEN Some(Head(links))
    ELSE ParseLinkLoop(Tail(links), count - 1)

\* gmail_bot.py:147-156
_parse_mailto_link(links, answer) == ParseLinkLoop(links, AnswerIndex(answer))

\* the loop of _find_email returning whatever the first message with an html
\* part gives, None included
RECURSIVE FindEmailLoopFirstHtml(_, _, _)
FindEmailLoopFirstHtml(msgs, n, answer) ==
    IF n > Len(msgs) THEN [email_content |-> None, scanned |-> Len(msgs)]
    ELSE LET parsed_links == _parse_email(msgs[n])
         IN IF ~IsNone(parsed_links)
            THEN [email_content |-> _parse_mailto_link(Get(parsed_links), answer),
                  scanned |-> n]
            ELSE FindEmailLoopFirstHtml(msgs, n + 1, answer)

\* gmail_bot.py:127-132, the loop from message n on; scanned counts the
\* messages the loop has looked at when it ends
RECURSIVE FindEmailLoop(_, _, _)
FindEmailLoop(msgs, n, answer) ==
    IF n > Len(msgs) THEN [email_content |-> None, scanned |-> Len(msgs)]
    ELSE LET parsed_links == _parse_email(msgs[n])
             email_content == IF ~IsNone(parsed_links)
                              THEN _parse_mailto_link(Get(parsed_links), answer)
                              ELSE None
         IN IF ~IsNone(email_content)
            THEN [email_content |-> email_content, scanned |-> n]
            ELSE FindEmailLoop(msgs, n + 1, answer)

\* gmail_bot.py:121-132
_find_email(msgs, answer) == FindEmailLoop(msgs, 1, answer)

\* ------------------------------------------------------- texts as inputs
\* a line is a run of segments, each a link or other markup; the links of
\* a text are numbered 1, 2, ... in their order of appearance
SegKinds == {"link", "junk"}
LineShapes == UNION {[1..n -> SegKinds] : n \in 0..MaxSegs}
TextShapes == UNION {[1..n -> LineShapes] : n \in 0..MaxLines}

RECURSIVE LinksIn(_)
LinksIn(lineShape) ==
    IF lineShape = <<>> THEN 0
    ELSE (IF Head(lineShape) = "link" THEN 1 ELSE 0) + LinksIn(Tail(lineShape))

\* the tokens of a line whose first link is link number k
RECURSIVE RenderLine(_, _)
RenderLine(lineShape, k) ==
    IF lineShape = <<>> THEN <<>>
    ELSE IF Head(lineShape) = "link" THEN Link(k) \o RenderLine(Tail(lineShape), k + 1)
    ELSE Junk \o RenderLine(Tail(lineShape), k)

RECURSIVE RenderText(_, _)
RenderText(textShape, k) ==
    IF textShape = <<>> THEN <<>>
    ELSE <<RenderLine(Head(textShape), k)>>
         \o RenderText(Tail(textShape), k + LinksIn(Head(textShape)))

\* str.split(',') of gmail_bot.py:112 and :116 on a run of tokens
RECURSIVE Split(_)
Split(str) ==
    IF \A i \in 1..Len(str) : str[i] # COMMA THEN <<str>>
    ELSE LET i == Min({n \in 1..Len(str) : str[n] = COMMA})
         IN <<SubSeq(str, 1, i - 1)>> \o Split(SubSeq(str, i + 1, Len(str)))

\* ---------------------------------------------------------------- strings
\* a string the code looks into is the sequence of its characters
\* len(s) is Len(s); s.endswith(suffix):
endswith(s, suffix) ==
    /\ Len(s) >= Len(suffix)
    /\ SubSeq(s, Len(s) - Len(suffix) + 1, Len(s)) = suffix

\* s.count(sub) for a non-empty sub: the occurrences found from left to
\* right, the search going on after the end of each
RECURSIVE count(_, _)
count(s, sub) ==
    IF Len(s) < Len(sub) THEN 0
    ELSE IF SubSeq(s, 1, Len(sub)) = sub
         THEN 1 + count(SubSeq(s, Len(sub) + 1, Len(s)), sub)
         ELSE count(Tail(s), sub)

\* s.lower(), on the letters the model uses
LowerChar(c) ==
    CASE c = "N" -> "n" [] c = "O" -> "o" [] c = "T" -> "t" [] c = "D" -> "d"
      [] c = "A" -> "a" [] c = "Y" -> "y" [] c = "E" -> "e" [] c = "S" -> "s"
      [] OTHER -> c
lower(s) == [i \in 1..Len(s) |-> LowerChar(s[i])]

\* the string of a sequence of characters
RECURSIVE Str(_)
Str(s) == IF s = <<>> THEN "" ELSE Head(s) \o Str(Tail(s))

\* sep.join(parts)
RECURSIVE join(_, _)
join(sep, parts) ==
    IF parts = <<>> THEN <<>>
    ELSE IF Len(parts) = 1 THEN parts[1]
    ELSE parts[1] \o sep \o join(sep, Tail(parts))

\* urllib.parse.unquote: %XX with two hexadecimal digits becomes the
\* character of that code, everything else stays.  The escapes of the
\* characters the model uses:
Escapes == {<<"2", "5">>, <<"4", "0">>, <<"2", "C">>}
Unescape(xx) == CASE xx = <<"2", "5">> -> "%" [] xx = <<"4", "0">> -> "@" [] xx = <<"2", "C">> -> ","
RECURSIVE unquote(_)
unquote(s) ==
    IF s = <<>> THEN <<>>
    ELSE IF Head(s) = "%" /\ Len(s) >= 3 /\ SubSeq(s, 2, 3) \in Escapes
         THEN <<Unescape(SubSeq(s, 2, 3))>> \o unquote(SubSeq(s, 4, Len(s)))
         ELSE <<Head(s)>> \o unquote(Tail(s))

\* gmail_bot.py:25
uci_domain == <<"@", "u", "c", "i", ".", "e", "d", "u">>

\* the three answers as the code spells them, gmail_bot.py:51
NotToday == <<"n", "o", "t", " ", "t", "o", "d", "a", "y">>
No == <<"n", "o">>
Yes == <<"y", "e", "s">>

\* the test of the email setter without the count of line 69
EmailAcceptedAnyCount(email_address) ==
    /\ Len(email_address) > Len(uci_domain)
    /\ endswith(email_address, uci_domain)

\* gmail_bot.py:68-69, the test of the email setter
EmailAccepted(email_address) ==
    /\ Len(email_address) > Len(uci_domain)
    /\ endswith(email_address, uci_domain)
    /\ count(email_address, uci_domain) = 1

\* the test of the response setter comparing user_response itself
ResponseAcceptedExact(user_response) ==
    \/ user_response = NotToday
    \/ user_response = No
    \/ user_response = Yes

\* gmail_bot.py:51, the test of the response setter
ResponseAccepted(user_response) ==
    \/ lower(user_response) = NotToday
    \/ lower(user_response) = No
    \/ lower(user_response) = Yes

\* gmail_bot.py:110-116: the arguments _send_email hands to sendmail for the
\* groups of the selected match
ComposeEmail(from_addr, groups) ==
    [from_addr |-> from_addr,
     to_addrs |-> Split(groups.emails),
     From |-> from_addr,
     To |-> join(<<",", " ">>, Split(groups.emails)),
     Subject |-> unquote(groups.subject),
     text |-> unquote(groups.body)]

\* the messages a retrieval in a run may return
ThreeLines == <<Link(1), Link(2), Link(3)>>
OneLine == <<Link(1) \o Junk \o Link(2) \o Junk \o Link(3)>>
TwoRecipients == <<<<MAILTO, "e1", COMMA, "r1", SUBJECT, "s1", BODY, "b1">>>>
MessagePool ==
    { Message(None, ThreeLines),
      Message(None, <<>>),
      Message(Some(<<Junk>>), <<>>),
      Message(Some(<<Link(1), Link(2)>>), <<>>),
      Message(Some(ThreeLines), <<>>),
      Message(Some(OneLine), <<>>),
      Message(Some(TwoRecipients), <<>>) }
Inboxes == UNION {[1..n -> MessagePool] : n \in 0..MaxEmails}

\* ------------------------------------------------------------------ state
VARIABLES
    response,        \* self._response, set by the constructor
    _email_found,    \* self._email_found
    _email_sent,     \* self._email_sent
    pc,              \* the line run_bot is at, "idle" between two calls
    \* run_bot's locals; between two calls, their values at the last return
    imap_server,     \* None or the retrieval session
    smtp_server,     \* None or the send session
    emails,          \* the retrieved messages
    email_contents,  \* None or the selected match
    exit,            \* how the try block of run_bot was left
    exc,             \* the exception in flight, "none" if there is none
    outcome,         \* how the last call of run_bot ended for its caller
    imapConn,        \* the retrieval connection of this run: none/open/closed
    smtpConn,        \* the send connection of this run: none/open/closed
    imapLogouts,     \* calls of logout in this run
    smtpQuits,       \* calls of quit in this run
    sendmails,       \* calls of sendmail in this run
    retrieved,       \* _find_emails has returned in this run
    setupError,      \* the step of session setup that raised in this run
    scanned,         \* messages _find_email looked at
    summaryBy,       \* per normal outcome, the first summary a run with that outcome left
    _email,          \* self._email, a string as the sequence of its characters
    _password,       \* self._password
    call,            \* the last constructor call or assignment: its arguments and what it raised
    main,            \* the __main__ block: its position and its locals email_sent, email_found
    message,         \* None or the arguments of the call of sendmail in this run
    okSends,         \* calls of sendmail that returned no failed recipient, so far
    atCall           \* the bot's attributes when run_bot was last called

vars == <<response, _email_found, _email_sent, pc, imap_server, smtp_server, emails,
          email_contents, exit, exc, outcome, imapConn, smtpConn, imapLogouts,
          smtpQuits, sendmails, retrieved, setupError, scanned, summaryBy,
          _email, _password, call, main, message, okSends, atCall>>

locals == <<imap_server, smtp_server, emails, email_contents>>
\* what the steps inside run_bot leave alone
outside == <<_email, _password, call, main>>
flags == <<_email_found, _email_sent>>
conns == <<imapConn, smtpConn, imapLogouts, smtpQuits>>

NormalOutcomes == {"sent", "send_failed", "not_found"}

\* gmail_bot.py:36-41
bot_summary == <<_email_sent, _email_found>>

\* the except clauses of run_bot, gmail_bot.py:93-98
Handled(e) == e \in {"LoginError", "gaierror"}

\* the attributes of the bot
Attributes ==
    [summary |-> bot_summary, email |-> _email, password |-> _password, response |-> response]

\* a constructor call or an assignment: what was called, with which email
\* and response arguments, and the exception it raised
Call(op, email_address, user_response, raised) ==
    [op |-> op, email |-> email_address, response |-> user_response, raised |-> raised]
NoCall == Call("none", <<>>, <<>>, "none")

\* the position and locals of the __main__ block; "api" when another caller
\* drives the bot; handled: a call of run_bot has ended in an except clause
Main(at, email_sent, email_found) ==
    [pc |-> at, email_sent |-> email_sent, email_found |-> email_found, handled |-> FALSE]

\* the address and the secret of a bot in use
SomeEmail == <<"a">> \o uci_domain
SomePassword == "secret"

\* gmail_bot.py:28-34, the bot after a successful construction
InitBot ==
    /\ response \in Answers
    /\ _email_sent = FALSE
    /\ _email_found = FALSE
    /\ _email = SomeEmail
    /\ _password = SomePassword
    /\ call = NoCall

InitRun ==
    /\ imap_server = None /\ smtp_server = None
    /\ emails = <<>> /\ email_contents = None
    /\ exit = "none" /\ exc = "none" /\ outcome = "none"
    /\ imapConn = "none" /\ smtpConn = "none"
    /\ imapLogouts = 0 /\ smtpQuits = 0 /\ sendmails = 0
    /\ retrieved = FALSE /\ setupError = "none" /\ scanned = 0
    /\ summaryBy = [o \in NormalOutcomes |-> None]
    /\ message = None /\ okSends = 0
    /\ atCall = Attributes

Init == InitBot /\ InitRun /\ pc = "idle" /\ main = Main("api", FALSE, FALSE)

\* an exception e leaves the try block: a matching except clause prints and
\* returns, otherwise e propagates; the finally block runs in both cases
Raise(e) ==
    /\ exc' = e
    /\ exit' = IF Handled(e) THEN "handled" ELSE "unhandled"
    /\ pc' = "finally"

\* run_bot clearing the two flags when it is entered
EnterRunBotResetFlags ==
    /\ pc = "idle"
    /\ pc' = "create_imap"
    /\ imap_server' = None /\ smtp_server' = None
    /\ emails' = <<>> /\ email_contents' = None
    /\ exit' = "none" /\ exc' = "none" /\ outcome' = "running"
    /\ imapConn' = "none" /\ smtpConn' = "none"
    /\ imapLogouts' = 0 /\ smtpQuits' = 0 /\ sendmails' = 0
    /\ retrieved' = FALSE /\ setupError' = "none" /\ scanned' = 0
    /\ message' = None
    /\ atCall' = Attributes
    /\ _email_found' = FALSE /\ _email_sent' = FALSE
    /\ UNCHANGED <<response, summaryBy, _email, _password, call, okSends>>

\* gmail_bot.py:75-80, run_bot is entered
EnterRunBot ==
    /\ pc = "idle"
    /\ pc' = "create_imap"
    /\ imap_server' = None /\ smtp_server' = None
    /\ emails' = <<>> /\ email_contents' = None
    /\ exit' = "none" /\ exc' = "none" /\ outcome' = "running"
    /\ imapConn' = "none" /\ smtpConn' = "none"
    /\ imapLogouts' = 0 /\ smtpQuits' = 0 /\ sendmails' = 0
    /\ retrieved' = FALSE /\ setupError' = "none" /\ scanned' = 0
    /\ message' = None
    /\ atCall' = Attributes
    /\ UNCHANGED <<response, flags, summaryBy, _email, _password, call, okSends>>

\* a caller other than __main__ calls run_bot
CallRunBot ==
    /\ main.pc = "api"
    /\ EnterRunBot
    /\ UNCHANGED main

\* gmail_bot.py:82 and 185-192.  IMAPClient(host) connects and raises
\* gaierror or another OSError when it cannot; login raises LoginError on
\* the connection just opened, which only _create_imap_server's local names
CreateImapServer ==
    /\ pc = "create_imap"
    /\ \E r \in {"ok", "connect_gaierror", "connect_OSError", "login_LoginError"} :
         CASE r = "ok" ->
                /\ imap_server' = Some("IMAPClient")
                /\ imapConn' = "open"
                /\ pc' = "create_smtp"
                /\ UNCHANGED <<exit, exc, setupError>>
           [] r = "connect_gaierror" ->
                /\ Raise("gaierror")
                /\ setupError' = "imap_connect"
                /\ UNCHANGED <<imap_server, imapConn>>
           [] r = "connect_OSError" ->
                /\ Raise("OSError")
                /\ setupError' = "imap_connect"
                /\ UNCHANGED <<imap_server, imapConn>>
           [] r = "login_LoginError" ->
                /\ Raise("LoginError")
                /\ setupError' = "imap_login"
                /\ imapConn' = "open"
                /\ UNCHANGED imap_server
    /\ UNCHANGED <<outside, message, okSends, atCall>>
    /\ UNCHANGED <<response, flags, smtp_server, emails, email_contents, outcome,
                   smtpConn, imapLogouts, smtpQuits, sendmails, retrieved, scanned,
                   summaryBy>>

\* gmail_bot.py:83 and 194-203.  SMTP(host, 587) connects; ehlo, starttls
\* and login act on the connection just opened, which only
\* _create_smtp_server's local names
CreateSmtpServer ==
    /\ pc = "create_smtp"
    /\ \E r \in {"ok", "connect_gaierror", "connect_OSError", "starttls_SMTPException",
                 "login_SMTPAuthenticationError"} :
         CASE r = "ok" ->
                /\ smtp_server' = Some("SMTP")
                /\ smtpConn' = "open"
                /\ pc' = "find_emails"
                /\ UNCHANGED <<exit, exc, setupError>>
           [] r = "connect_gaierror" ->
                /\ Raise("gaierror")
                /\ setupError' = "smtp_connect"
                /\ UNCHANGED <<smtp_server, smtpConn>>
           [] r = "connect_OSError" ->
                /\ Raise("OSError")
                /\ setupError' = "smtp_connect"
                /\ UNCHANGED <<smtp_server, smtpConn>>
           [] r = "starttls_SMTPException" ->
                /\ Raise("SMTPException")
                /\ setupError' = "smtp_starttls"
                /\ smtpConn' = "open"
                /\ UNCHANGED smtp_server
           [] r = "login_SMTPAuthenticationError" ->
                /\ Raise("SMTPAuthenticationError")
                /\ setupError' = "smtp_login"
                /\ smtpConn' = "open"
                /\ UNCHANGED smtp_server
    /\ UNCHANGED <<outside, message, okSends, atCall>>
    /\ UNCHANGED <<response, flags, imap_server, emails, email_contents, outcome,
                   imapConn, imapLogouts, smtpQuits, sendmails, retrieved, scanned,
                   summaryBy>>

\* gmail_bot.py:84 and 165-174: the server's answer is any inbox, or the
\* session fails
FindEmails ==
    /\ pc = "find_emails"
    /\ \/ \E inbox \in Inboxes :
            /\ emails' = inbox
            /\ retrieved' = TRUE
            /\ pc' = "find_email"
            /\ UNCHANGED <<exit, exc>>
       \/ /\ Raise("IMAPClientError")
          /\ UNCHANGED <<emails, retrieved>>
    /\ UNCHANGED <<outside, message, okSends, atCall>>
    /\ UNCHANGED <<response, flags, imap_server, smtp_server, email_contents, outcome,
                   conns, sendmails, setupError, scanned, summaryBy>>

\* gmail_bot.py:85-87
FindEmail ==
    /\ pc = "find_email"
    /\ LET found == _find_email(emails, response)
       IN /\ email_contents' = found.email_content
          /\ scanned' = found.scanned
          /\ IF IsNone(found.email_content)
             THEN /\ exit' = "not_found"
                  /\ pc' = "finally"
             ELSE /\ exit' = exit
                  /\ pc' = "send_email"
    /\ UNCHANGED <<outside, message, okSends, atCall>>
    /\ UNCHANGED <<response, flags, imap_server, smtp_server, emails, exc, outcome,
                   conns, sendmails, retrieved, setupError, summaryBy>>

\* lines 88-91 without line 88
SendEmailNoFound ==
    /\ pc = "send_email"
    /\ _email_found' = _email_found
    /\ sendmails' = sendmails + 1
    /\ message' = Some(ComposeEmail(_email, Get(email_contents)))
    /\ LET to_addrs == message'[1].to_addrs
           rcpts == {to_addrs[i] : i \in 1..Len(to_addrs)}
       IN \/ \E failed_emails \in SUBSET rcpts :
               /\ failed_emails # rcpts
               /\ _email_sent' = IF Cardinality(failed_emails) = 0 THEN TRUE ELSE _email_sent
               /\ okSends' = IF Cardinality(failed_emails) = 0 /\ okSends < MaxOkSends
                             THEN okSends + 1 ELSE okSends
               /\ exit' = IF Cardinality(failed_emails) = 0 THEN "sent" ELSE "send_failed"
               /\ pc' = "finally"
               /\ exc' = exc
          \/ /\ Raise("SMTPException")
             /\ UNCHANGED <<_email_sent, okSends>>
    /\ UNCHANGED <<outside, atCall>>
    /\ UNCHANGED <<response, locals, outcome, conns, retrieved, setupError, scanned,
                   summaryBy>>

\* lines 88-91 sending a second time when recipients were refused
SendEmailRetry ==
    /\ pc = "send_email"
    /\ _email_found' = TRUE
    /\ LET to_addrs == Split(Get(email_contents).emails)
           rcpts == {to_addrs[i] : i \in 1..Len(to_addrs)}
       IN \/ \E failed_emails \in SUBSET rcpts :
               /\ failed_emails # rcpts
               /\ sendmails' = IF Cardinality(failed_emails) = 0 THEN sendmails + 1
                                ELSE sendmails + 2
               /\ okSends' = IF Cardinality(failed_emails) = 0 /\ okSends < MaxOkSends
                             THEN okSends + 1 ELSE okSends
               /\ _email_sent' = IF Cardinality(failed_emails) = 0 THEN TRUE ELSE _email_sent
               /\ exit' = IF Cardinality(failed_emails) = 0 THEN "sent" ELSE "send_failed"
               /\ pc' = "finally"
               /\ exc' = exc
          \/ /\ Raise("SMTPException")
             /\ sendmails' = sendmails + 1
             /\ UNCHANGED <<_email_sent, okSends>>
    /\ message' = Some(ComposeEmail(_email, Get(email_contents)))
    /\ UNCHANGED <<outside, atCall>>
    /\ UNCHANGED <<response, locals, outcome, conns, retrieved, setupError, scanned,
                   summaryBy>>

\* gmail_bot.py:88-91 and 105-116.  sendmail returns the refused recipients
\* when the server accepted at least one, and raises otherwise
SendEmail ==
    /\ pc = "send_email"
    /\ _email_found' = TRUE
    /\ sendmails' = sendmails + 1
    /\ message' = Some(ComposeEmail(_email, Get(email_contents)))
    /\ LET to_addrs == message'[1].to_addrs
           rcpts == {to_addrs[i] : i \in 1..Len(to_addrs)}
       IN \/ \E failed_emails \in SUBSET rcpts :
               /\ failed_emails # rcpts
               /\ _email_sent' = IF Cardinality(failed_emails) = 0 THEN TRUE ELSE _email_sent
               /\ okSends' = IF Cardinality(failed_emails) = 0 /\ okSends < MaxOkSends
                             THEN okSends + 1 ELSE okSends
               /\ exit' = IF Cardinality(failed_emails) = 0 THEN "sent" ELSE "send_failed"
               /\ pc' = "finally"
               /\ exc' = exc
          \/ /\ Raise("SMTPException")
             /\ UNCHANGED <<_email_sent, okSends>>
    /\ UNCHANGED <<outside, atCall>>
    /\ UNCHANGED <<response, locals, outcome, conns, retrieved, setupError, scanned,
                   summaryBy>>

\* how the call ends for the caller when the finally block raised nothing
OutcomeOf(how) ==
    CASE how = "handled" -> "handled_error"
      [] how = "unhandled" -> "raised"
      [] OTHER -> how

\* gmail_bot.py:100
LogoutGuard == ~IsNone(imap_server)

\* line 102 with its test the wrong way round
QuitGuardInverted == IsNone(smtp_server)

\* gmail_bot.py:102
QuitGuard == ~IsNone(smtp_server)

\* gmail_bot.py:99-103 and the return to the caller.  logout and quit may
\* fail; an exception of logout leaves the finally block at once
Finally ==
    /\ pc = "finally"
    /\ \E lo \in {"ok", "raise"}, qu \in {"ok", "raise"} :
         LET doLogout == LogoutGuard
             logoutRaised == doLogout /\ lo = "raise"
             doQuit == ~logoutRaised /\ QuitGuard
             quitRaised == doQuit /\ qu = "raise"
             result == IF logoutRaised \/ quitRaised THEN "raised" ELSE OutcomeOf(exit)
         IN /\ doLogout \/ lo = "ok"
            /\ doQuit \/ qu = "ok"
            /\ imapLogouts' = IF doLogout THEN imapLogouts + 1 ELSE imapLogouts
            /\ imapConn' = IF doLogout /\ ~logoutRaised THEN "closed" ELSE imapConn
            /\ smtpQuits' = IF doQuit THEN smtpQuits + 1 ELSE smtpQuits
            /\ smtpConn' = IF doQuit /\ ~quitRaised THEN "closed" ELSE smtpConn
            /\ exc' = IF logoutRaised THEN "IMAPClientError"
                      ELSE IF quitRaised THEN "SMTPException"
                      ELSE IF exit = "unhandled" THEN exc ELSE "none"
            /\ outcome' = result
            /\ summaryBy' = IF result \in NormalOutcomes /\ IsNone(summaryBy[result])
                            THEN [summaryBy EXCEPT ![result] = Some(bot_summary)]
                            ELSE summaryBy
    /\ pc' = "idle"
    /\ UNCHANGED <<outside, message, okSends, atCall>>
    /\ UNCHANGED <<response, flags, locals, exit, sendmails, retrieved, setupError, scanned>>

Next ==
    \/ CallRunBot
    \/ CreateImapServer
    \/ CreateSmtpServer
    \/ FindEmails
    \/ FindEmail
    \/ SendEmail
    \/ Finally

Spec == Init /\ [][Next]_vars

\* ------------------------------------------------------ the __main__ block
\* all variables but main
botvars == <<response, _email_found, _email_sent, pc, imap_server, smtp_server, emails,
             email_contents, exit, exc, outcome, imapConn, smtpConn, imapLogouts,
             smtpQuits, sendmails, retrieved, setupError, scanned, summaryBy,
             _email, _password, call, message, okSends, atCall>>

\* gmail_bot.py:208-209, the bot built with the answer 'not today'
InitMain ==
    /\ InitBot /\ response = "not today"
    /\ InitRun /\ pc = "idle"
    /\ main = Main("line210", FALSE, FALSE)

\* the condition of lines 213 and 215 with its second test the wrong way round
UnsatisfiedFoundInverted(m) == ~m.email_sent \/ m.email_found

\* gmail_bot.py:213 and 215: not email_sent or not email_found
Unsatisfied(m) == ~m.email_sent \/ ~m.email_found

\* run_bot has returned to __main__ without an exception
Returned == pc = "idle" /\ outcome \notin {"running", "raised"}

\* gmail_bot.py:210
MainRunBot ==
    /\ main.pc = "line210"
    /\ EnterRunBot
    /\ main' = [main EXCEPT !.pc = "in210"]

\* gmail_bot.py:211
MainSummary ==
    /\ main.pc = "in210"
    /\ Returned
    /\ main' = [main EXCEPT !.pc = "line213",
                            !.email_sent = bot_summary[1],
                            !.email_found = bot_summary[2],
                            !.handled = (outcome = "handled_error")]
    /\ UNCHANGED botvars

\* an exception leaves run_bot at line 210 or inside schedule.run_pending at
\* line 216: nothing catches it and the process ends
MainCrash ==
    /\ main.pc \in {"in210", "in216"}
    /\ pc = "idle" /\ outcome = "raised"
    /\ main' = [main EXCEPT !.pc = "crashed"]
    /\ UNCHANGED botvars

\* gmail_bot.py:213-214
MainIf ==
    /\ main.pc = "line213"
    /\ main' = [main EXCEPT !.pc = IF Unsatisfied(main) THEN "line215" ELSE "exit213"]
    /\ UNCHANGED botvars

\* gmail_bot.py:215
MainWhile ==
    /\ main.pc = "line215"
    /\ main' = [main EXCEPT !.pc = IF Unsatisfied(main) THEN "line216" ELSE "exit215"]
    /\ UNCHANGED botvars

\* gmail_bot.py:216, no job is due: run_pending returns at once
MainRunPendingNotDue ==
    /\ main.pc = "line216"
    /\ main' = [main EXCEPT !.pc = "line217"]
    /\ UNCHANGED botvars

\* gmail_bot.py:216, the hour has passed: run_pending calls bot.run_bot
MainRunPendingDue ==
    /\ main.pc = "line216"
    /\ EnterRunBot
    /\ main' = [main EXCEPT !.pc = "in216"]

\* gmail_bot.py:216, the job has returned
MainJobReturned ==
    /\ main.pc = "in216"
    /\ Returned
    /\ main' = [main EXCEPT !.pc = "line217",
                            !.handled = main.handled \/ outcome = "handled_error"]
    /\ UNCHANGED botvars

\* line 217 without the call of bot_summary
MainSummaryLoopStale ==
    /\ main.pc = "line217"
    /\ main' = [main EXCEPT !.pc = "line215"]
    /\ UNCHANGED botvars

\* gmail_bot.py:217
MainSummaryLoop ==
    /\ main.pc = "line217"
    /\ main' = [main EXCEPT !.pc = "line215",
                            !.email_sent = bot_summary[1],
                            !.email_found = bot_summary[2]]
    /\ UNCHANGED botvars

NextMain ==
    \/ MainRunBot
    \/ MainSummary
    \/ MainCrash
    \/ MainIf
    \/ MainWhile
    \/ MainRunPendingNotDue
    \/ MainRunPendingDue
    \/ MainJobReturned
    \/ MainSummaryLoop
    \/ CreateImapServer
    \/ CreateSmtpServer
    \/ FindEmails
    \/ FindEmail
    \/ SendEmail
    \/ Finally

SpecMain == InitMain /\ [][NextMain]_vars

\* a step of __main__ itself (gmail_bot.py:207-217)
MainStep ==
    \/ MainRunBot
    \/ MainSummary
    \/ MainCrash
    \/ MainIf
    \/ MainWhile
    \/ MainRunPendingNotDue
    \/ MainRunPendingDue
    \/ MainJobReturned
    \/ MainSummaryLoop

\* a step of a started run_bot other than the scan of line 85
RunStep ==
    \/ CreateImapServer
    \/ CreateSmtpServer
    \/ FindEmails
    \/ SendEmail
    \/ Finally

\* the scan of line 85 ends: _find_email is a loop over a finite list
Line85Ends == pc = "find_email" /\ pc' \in {"send_email", "finally"}

\* the process keeps running (its statements and library calls end), and the
\* hourly job comes due again and again while line 216 is polled
SpecMainFair ==
    /\ SpecMain
    /\ WF_vars(MainStep)
    /\ WF_vars(RunStep)
    /\ WF_pc(Line85Ends)
    /\ SF_vars(MainRunPendingDue)

MainStopped == main.pc \in {"exit213", "exit215", "crashed"}

\* ------------------------------------------- construction and assignment
\* the calls a program makes on a bot that is not inside run_bot
\* gmail_bot.py:28-34: UciSupportBot(email_address, password, user_response)
\* in a program that has made no run; the new bot takes the place of the old
\* one unless a setter raises
Construct(email_address, password, user_response) ==
    /\ pc = "idle" /\ outcome = "none"
    /\ LET raised == IF ~EmailAccepted(email_address) THEN "UciInvalidEmail"
                     ELSE IF ~ResponseAccepted(user_response) THEN "ValueError"
                     ELSE "none"
       IN /\ call' = Call("construct", email_address, user_response, raised)
          /\ IF raised = "none"
             THEN /\ _email' = email_address
                  /\ _password' = password
                  /\ response' = Str(lower(user_response))
                  /\ _email_sent' = FALSE
                  /\ _email_found' = FALSE
             ELSE UNCHANGED <<_email, _password, response, flags>>
    /\ UNCHANGED <<pc, locals, exit, exc, outcome, conns, sendmails, retrieved,
                   setupError, scanned, summaryBy, main, message, okSends, atCall>>

\* what a call on the bot other than run_bot leaves alone
run == <<pc, locals, exit, exc, outcome, conns, sendmails, retrieved,
         setupError, scanned, summaryBy, main, message, okSends, atCall, flags>>

\* gmail_bot.py:61-73: bot.email = email_address
AssignEmail(email_address) ==
    /\ pc = "idle"
    /\ IF EmailAccepted(email_address)
       THEN /\ _email' = email_address
            /\ call' = Call("email", email_address, <<>>, "none")
       ELSE /\ _email' = _email
            /\ call' = Call("email", email_address, <<>>, "UciInvalidEmail")
    /\ UNCHANGED <<run, _password, response>>

\* gmail_bot.py:48-54: bot.response = user_response
AssignResponse(user_response) ==
    /\ pc = "idle"
    /\ IF ResponseAccepted(user_response)
       THEN /\ response' = Str(lower(user_response))
            /\ call' = Call("response", <<>>, user_response, "none")
       ELSE /\ response' = response
            /\ call' = Call("response", <<>>, user_response, "ValueError")
    /\ UNCHANGED <<run, _email, _password>>

\* password with a setter that stores what it is given
AssignPasswordStores ==
    /\ pc = "idle"
    /\ call' = Call("password", <<>>, <<>>, "none")
    /\ _password' = "other"
    /\ UNCHANGED <<run, _email, response>>

\* gmail_bot.py:159-162: password is a property without a setter, so
\* bot.password = ... raises AttributeError
AssignPassword ==
    /\ pc = "idle"
    /\ call' = Call("password", <<>>, <<>>, "AttributeError")
    /\ UNCHANGED <<run, _email, _password, response>>

\* gmail_bot.py:36-41: bot.bot_summary()
BotSummary ==
    /\ pc = "idle"
    /\ call' = Call("bot_summary", <<>>, <<>>, "none")
    /\ UNCHANGED <<run, _email, _password, response>>

\* the addresses tried: every run of at most MaxPieces pieces
Pieces ==
    { uci_domain,
      <<"a">>,
      <<"@", "u", "c", "i">>,
      <<".", "e", "d", "u">>,
      <<"@", "U", "C", "I", ".", "E", "D", "U">> }
RECURSIVE Concat(_)
Concat(ps) == IF ps = <<>> THEN <<>> ELSE Head(ps) \o Concat(Tail(ps))
Addresses == {Concat(ps) : ps \in UNION {[1..n -> Pieces] : n \in 0..MaxPieces}}

\* the answers tried: the three answers in every mix of upper and lower
\* case, and strings that are none of them
UpperChar(c) ==
    CASE c = "n" -> "N" [] c = "o" -> "O" [] c = "t" -> "T" [] c = "d" -> "D"
      [] c = "a" -> "A" [] c = "y" -> "Y" [] c = "e" -> "E" [] c = "s" -> "S"
      [] OTHER -> c
CaseVariants(s) ==
    {[i \in 1..Len(s) |-> IF i \in U THEN UpperChar(s[i]) ELSE s[i]] : U \in SUBSET (1..Len(s))}
OtherStrings ==
    { <<>>, <<"n">>, <<"y">>, <<"N", "o", "t">>, <<"n", "o", " ">>, <<" ", "n", "o">>,
      <<"y", "e", "s", "s">>, <<"n", "o", "t", "t", "o", "d", "a", "y">>,
      <<"n", "o", "t", " ", " ", "t", "o", "d", "a", "y">>, <<"n", "o", "n", "e">> }
ResponseInputs ==
    CaseVariants(NotToday) \cup CaseVariants(No) \cup CaseVariants(Yes) \cup OtherStrings
Passwords == {SomePassword, "other"}

\* the programs that construct a bot and then assign an address to it or to
\* the bot they began with
NextEmail ==
    \/ /\ call = NoCall
       /\ \E email_address \in Addresses, user_response \in {Yes, <<"n">>} :
             Construct(email_address, SomePassword, user_response)
    \/ /\ call.op \in {"none", "construct"}
       /\ \E email_address \in Addresses : AssignEmail(email_address)
SpecEmail == Init /\ [][NextEmail]_vars

\* the programs that construct a bot and then assign an answer to it or to
\* the bot they began with
NextAnswer ==
    \/ /\ call = NoCall
       /\ \E email_address \in {SomeEmail, uci_domain}, password \in Passwords,
             user_response \in ResponseInputs :
             Construct(email_address, password, user_response)
    \/ /\ call.op \in {"none", "construct"}
       /\ \E user_response \in ResponseInputs : AssignResponse(user_response)
SpecAnswer == Init /\ [][NextAnswer]_vars

\* a program that makes one call of run_bot and, before and after it, calls
\* bot_summary and assigns to the three attributes
BotAddresses == {<<"b">> \o uci_domain, uci_domain}
BotResponses == {<<"N", "O">>, <<"n">>}
NextBot ==
    \/ outcome = "none" /\ CallRunBot
    \/ CreateImapServer
    \/ CreateSmtpServer
    \/ FindEmails
    \/ FindEmail
    \/ SendEmail
    \/ Finally
    \/ BotSummary
    \/ AssignPassword
    \/ \E email_address \in BotAddresses : AssignEmail(email_address)
    \/ \E user_response \in BotResponses : AssignResponse(user_response)
SpecBot == Init /\ [][NextBot]_vars

\* ---------------------------------------------- the scan as a function
\* run_bot at line 85 with the messages msgs just retrieved
AtFindEmail(msgs) ==
    /\ InitBot
    /\ pc = "find_email"
    /\ imap_server = Some("IMAPClient") /\ smtp_server = Some("SMTP")
    /\ emails = msgs /\ email_contents = None
    /\ exit = "none" /\ exc = "none" /\ outcome = "running"
    /\ imapConn = "open" /\ smtpConn = "open"
    /\ imapLogouts = 0 /\ smtpQuits = 0 /\ sendmails = 0
    /\ retrieved = TRUE /\ setupError = "none" /\ scanned = 0
    /\ summaryBy = [o \in NormalOutcomes |-> None]
    /\ message = None /\ okSends = 0
    /\ atCall = Attributes
    /\ main = Main("api", FALSE, FALSE)

\* the captured fields tried: plain, percent-encoded once and twice, with
\* a comma and with an encoded comma
EncodedFields ==
    { <<"a">>,
      <<"%", "4", "0">>,
      <<"%", "2", "5", "4", "0">>,
      <<"a", ",", "b">>,
      <<"a", "%", "2", "C", "b">>,
      <<"a", "%", "4", "0", "b">> }

\* run_bot from line 85 to line 89 on one message whose html part is one
\* link with the given fields
InitSend ==
    \E e \in EncodedFields, s \in EncodedFields, b \in EncodedFields :
        AtFindEmail(<<Message(Some(<<<<MAILTO>> \o e \o <<SUBJECT>> \o s \o <<BODY>> \o b>>), <<>>)>>)
NextSend ==
    \/ FindEmail
    \/ SendEmail
SpecSend == InitSend /\ [][NextSend]_vars

\* link selection in one message with an html part, over all texts
InitLink == \E shape \in TextShapes : AtFindEmail(<<Message(Some(RenderText(shape, 1)), <<>>)>>)
NextLink == FindEmail
SpecLink == InitLink /\ [][NextLink]_vars

\* the scan over a sequence of messages
FindInboxes == UNION {[1..n -> MessagePool] : n \in 0..MaxFindEmails}
InitFind == \E inbox \in FindInboxes : AtFindEmail(inbox)
NextFind == FindEmail
SpecFind == InitFind /\ [][NextFind]_vars

\* line 85 has been executed
Scanned == pc \in {"send_email", "finally"}

\* the matches of message n of the retrieved messages, in their order
MatchesOf(n) == IF IsNone(emails[n].html_part) THEN <<>> ELSE finditer(Get(emails[n].html_part))

\* the links of a text: every link starts with the literal mailto:
RECURSIVE CountMailto(_)
CountMailto(line) ==
    IF line = <<>> THEN 0
    ELSE (IF Head(line) = MAILTO THEN 1 ELSE 0) + CountMailto(Tail(line))
RECURSIVE LinkCount(_)
LinkCount(text) == IF text = <<>> THEN 0 ELSE CountMailto(Head(text)) + LinkCount(Tail(text))

\* match m is link k of the text: its recipients and subject are those of
\* link k and its body starts with the body of link k
IsLink(m, k) ==
    /\ m.emails = LinkEmails(k)
    /\ m.subject = LinkSubject(k)
    /\ Len(m.body) >= 1
    /\ SubSeq(m.body, 1, 1) = LinkBody(k)

HasHtml(m) == ~IsNone(m.html_part)
Qualifies(n) == Len(MatchesOf(n)) >= AnswerIndex(response) + 1
SetupSteps == {"imap_connect", "imap_login", "smtp_connect", "smtp_login"}

\* ----------------------------------------------------------------- claims

\* C1: a run of run_bot that ends on a normal path (reply sent, reply sent
\* with failed recipients, no link found) has called logout once on the
\* retrieval session and quit once on the send session when it returns, and
\* neither session is still open.
C1_NormalPathReleasesBoth ==
    (pc = "idle" /\ outcome \in NormalOutcomes) =>
        /\ imapLogouts = 1 /\ imapConn = "closed"
        /\ smtpQuits = 1 /\ smtpConn = "closed"

C1_Witness ==
    /\ pc = "idle" /\ outcome = "send_failed"
    /\ imapLogouts = 1 /\ smtpQuits = 1

\* C2: a run in which session setup fails with an authentication or
\* connection error (connect or login, either session) leaves no connection
\* it opened open, and every connection it opened was released exactly once.
C2_SetupFailureReleasesAll ==
    (pc = "idle" /\ setupError \in SetupSteps) =>
        /\ imapConn # "open" /\ smtpConn # "open"
        /\ imapConn = "closed" => imapLogouts = 1
        /\ smtpConn = "closed" => smtpQuits = 1

\* C3: the pair reported by bot_summary after a run depends on that run's
\* outcome alone: two runs with the same outcome leave the same pair,
\* whatever runs came before them.
C3_SummaryDependsOnLastRunOnly ==
    (pc = "idle" /\ outcome \in NormalOutcomes) => summaryBy[outcome] = Some(bot_summary)

\* C4: a run whose retrieval returns no message ends with found = false and
\* sent = false, and never calls sendmail.
C4_EmptyInboxReportsNothing ==
    (pc = "idle" /\ retrieved /\ emails = <<>> /\ outcome = "not_found") =>
        /\ _email_found = FALSE /\ _email_sent = FALSE
        /\ sendmails = 0

\* C5: a run that found a link ends with found = true, with sent = true if
\* sendmail reported no failed recipient and sent = false if it reported at
\* least one; a non-empty result of sendmail raises nothing.
C5_FoundLinkSetsFlags ==
    (pc = "idle" /\ outcome \in {"sent", "send_failed"}) =>
        /\ _email_found = TRUE
        /\ _email_sent = (outcome = "sent")
        /\ exc = "none"

\* C6: in a message whose html text holds exactly three links, the selected
\* match is the link at the answer's index (not today 0, no 1, yes 2); in
\* general the selected match is the one at position index(answer) of the
\* matches taken left to right.
C6_LinkAtAnswerIndex ==
    (Scanned /\ Len(emails) = 1 /\ HasHtml(emails[1])) =>
        LET index == AnswerIndex(response)
        IN /\ LinkCount(Get(emails[1].html_part)) = 3 =>
                /\ ~IsNone(email_contents)
                /\ IsLink(Get(email_contents), index + 1)
           /\ Len(MatchesOf(1)) > index =>
                email_contents = Some(MatchesOf(1)[index + 1])

C8_NoHtmlNeverContributes ==
    Scanned =>
        /\ ~IsNone(email_contents) => HasHtml(emails[scanned])
        /\ (\A n \in 1..Len(emails) : ~HasHtml(emails[n])) =>
               IsNone(email_contents) /\ scanned = Len(emails)
        /\ email_contents = _find_email(SelectSeq(emails, HasHtml), response).email_content

C8_Witness ==
    /\ Scanned /\ Len(emails) >= 2
    /\ ~HasHtml(emails[1]) /\ LinkCount(emails[1].text_part) = 3
    /\ scanned = 2 /\ ~IsNone(email_contents)

\* C9: a run calls sendmail at most once, and only when both sessions are
\* established, the messages were retrieved and a link was selected in that
\* run; a run that found no link or whose session setup failed never calls it.
C9_SendOnceAfterExtraction ==
    /\ sendmails <= 1
    /\ sendmails = 1 =>
          /\ ~IsNone(imap_server) /\ ~IsNone(smtp_server)
          /\ retrieved /\ ~IsNone(email_contents)
    /\ (exit = "not_found" \/ setupError # "none") => sendmails = 0

C9_Witness ==
    /\ pc = "idle" /\ sendmails = 1 /\ outcome = "sent"

\* C10: every authentication or connection error raised while a session is
\* being set up is caught in run_bot: the run neither retrieves nor sends and
\* run_bot returns to its caller without an exception.
C10_SetupErrorsCaught ==
    (pc = "idle" /\ setupError \in SetupSteps) =>
        /\ outcome = "handled_error"
        /\ ~retrieved /\ sendmails = 0

\* C11: the driver runs once at startup and repeats runs while the result is
\* not both found and sent; whenever it has stopped, the result is found =
\* true and sent = true.
C11_DriverStopsOnlyWhenFoundAndSent ==
    MainStopped => (_email_found = TRUE /\ _email_sent = TRUE)

\* C12: a constructor call or an assignment to email is accepted exactly
\* when the address ends with @uci.edu, holds @uci.edu at exactly one place
\* and is longer than @uci.edu; every other address raises UciInvalidEmail.
Occurrences(s, sub) ==
    {i \in 1..Len(s) : i + Len(sub) - 1 <= Len(s) /\ SubSeq(s, i, i + Len(sub) - 1) = sub}
ValidAddress(s) ==
    /\ Len(s) - Len(uci_domain) + 1 \in Occurrences(s, uci_domain)
    /\ Cardinality(Occurrences(s, uci_domain)) = 1
    /\ Len(s) > Len(uci_domain)
C12_EmailAcceptedExactly ==
    call.op \in {"construct", "email"} =>
        IF ValidAddress(call.email)
        THEN /\ call.raised # "UciInvalidEmail"
             /\ call.op = "email" => call.raised = "none"
             /\ call.raised = "none" => _email = call.email
        ELSE call.raised = "UciInvalidEmail"

C12_Witness ==
    /\ call.op = "construct" /\ call.raised = "none"
    /\ _email = <<"@", "u", "c", "i">> \o uci_domain

\* C13: a constructor call (with an accepted address) or an assignment to
\* response whose string equals 'not today', 'no' or 'yes' ignoring case
\* stores that answer in lower case; with any other string it raises
\* ValueError and the stored answer stays as it was.
EqualIgnoringCase(s, t) ==
    /\ Len(s) = Len(t)
    /\ \A i \in 1..Len(s) : s[i] = t[i] \/ s[i] = UpperChar(t[i]) \/ UpperChar(s[i]) = t[i]
C13_AnswerStep ==
    (call'.op \in {"construct", "response"} /\ call'.raised # "UciInvalidEmail") =>
        IF \E answer \in {NotToday, No, Yes} : EqualIgnoringCase(call'.response, answer)
        THEN /\ call'.raised = "none"
             /\ \E answer \in {NotToday, No, Yes} :
                   /\ EqualIgnoringCase(call'.response, answer)
                   /\ response' = Str(answer)
        ELSE /\ call'.raised = "ValueError"
             /\ response' = response
C13_AnswerNormalised == [][C13_AnswerStep]_vars

C13_Witness ==
    /\ call.op = "construct" /\ call.raised = "none"
    /\ call.response = <<"N", "o", "T", " ", "t", "O", "d", "a", "Y">>
    /\ response = "not today"

\* C14: the message handed to sendmail carries each captured field decoded
\* once: the envelope recipients and the To header are the decoded
\* recipients (decoded before or after the split at the commas), the Subject
\* header is the decoded subject and the text part the decoded body.
DecodeEach(parts) == [i \in 1..Len(parts) |-> unquote(parts[i])]
C14_FieldsDecodedOnce ==
    ~IsNone(message) =>
        LET m == Get(message)
            groups == Get(email_contents)
        IN /\ m.to_addrs \in {Split(unquote(groups.emails)), DecodeEach(Split(groups.emails))}
           /\ m.To = join(<<",", " ">>, m.to_addrs)
           /\ m.Subject = unquote(groups.subject)
           /\ m.text = unquote(groups.body)

\* C15 as stated: no step of a program on a constructed bot changes the
\* stored address, secret or answer.
C15_CredentialsImmutable ==
    [][<<_email, _password, response>>' = <<_email, _password, response>>]_vars

\* C15: run_bot, bot_summary and an assignment to password never change the
\* stored address, secret or answer.  The address changes only in an
\* assignment to email that raises nothing, and becomes the assigned address;
\* the answer changes only in an assignment to response that raises nothing,
\* and becomes the assigned string in lower case; an assignment that raises
\* changes none of the three.
C15_Step ==
    /\ _password' = _password
    /\ _email' # _email =>
          /\ call'.op = "email" /\ call'.raised = "none"
          /\ _email' = call'.email
    /\ response' # response =>
          /\ call'.op = "response" /\ call'.raised = "none"
          /\ response' = Str(lower(call'.response))
    /\ (call' # call /\ call'.raised # "none") =>
          <<_email, _password, response>>' = <<_email, _password, response>>
C15_OnlyAcceptedAssignmentsChange == [][C15_Step]_vars

C15_Witness ==
    /\ pc = "idle" /\ outcome = "sent"
    /\ call.op = "response" /\ call.raised = "none"
    /\ _email = <<"b">> \o uci_domain /\ response = "no"

\* C16: at the end of a run in which both sessions were opened, logout and
\* quit have both been called, whether or not one of them failed.
C16_BothReleasesPerformed ==
    (pc = "idle" /\ outcome # "none" /\ ~IsNone(imap_server) /\ ~IsNone(smtp_server)) =>
        /\ imapLogouts = 1
        /\ smtpQuits = 1

\* C17: with the process running and the hourly job coming due again and
\* again, if from some point on no run fails (every run sets up both
\* sessions, finds a link and sends it with no failed recipient), the driver
\* eventually sees found and sent and stops.
NoFailure ==
    /\ exit \in {"none", "sent"}
    /\ outcome \in {"none", "running", "sent"}
DriverDone ==
    /\ main.pc \in {"exit213", "exit215"}
    /\ main.email_sent /\ main.email_found
C17_DriverEventuallyStops == (<>[]NoFailure) => <>DriverDone

C17_Witness ==
    /\ main.pc = "exit215" /\ main.handled
    /\ main.email_sent /\ main.email_found

\* C18: whatever runs have taken place, sent = true only if found = true.
C18_SentImpliesFound == _email_sent => _email_found

C18_Witness ==
    /\ pc = "idle" /\ outcome = "not_found"
    /\ _email_sent /\ _email_found

\* C19: in the life of the driver at most one call of sendmail returns no
\* failed recipient, no run is entered after the run of that call, and a
\* run that calls sendmail was entered with nothing reported as sent.
C19_OneSuccessfulSend ==
    /\ okSends <= 1
    /\ okSends = 1 => (exit = "sent" /\ sendmails = 1)
    /\ sendmails >= 1 => atCall.summary[1] = FALSE

C19_Witness ==
    /\ main.pc = "exit215" /\ okSends = 1
    /\ summaryBy["send_failed"] # None

\* C20: a run that ends in one of the except clauses leaves the pair of
\* bot_summary, the address, the secret and the answer as they were when
\* run_bot was called.
C20_HandledErrorChangesNothing ==
    (pc = "idle" /\ outcome = "handled_error") => Attributes = atCall

C20_Witness ==
    /\ pc = "idle" /\ outcome = "handled_error"
    /\ _email_found /\ ~_email_sent

====
